---- MODULE Spec2Model ----
(***************************************************************************)
(* Model of the angelsuite installer backend (src-tauri): the manifest     *)
(* version resolver, the persisted Install store and the Tauri commands    *)
(* load_manifest, set_prerelease, install_app, remove_app and start_app.   *)
(*                                                                         *)
(* Option<T> is modelled as a sequence of length at most one: <<>> is None *)
(* and <<x>> is Some(x).  A String that holds a version is the sequence of *)
(* its characters; a path is the sequence of its components.               *)
(***************************************************************************)
EXTENDS Naturals, Sequences, FiniteSets, TLC

VARIABLES
    platform,      \* the target the binary was compiled for (cfg!(target_os/arch))
    remote,        \* the manifest document served at MANIFEST_URL
    manifest,      \* AppData.manifest: Option<Manifest>
    mem,           \* AppData.install_data: the shared in-memory Install store
    disk,          \* the state file local_install_file()
    fs,            \* the paths that exist under local_install_dir()
    mfPoisoned,    \* AppData.manifest mutex poisoned by a panic under its guard
    instPoisoned,  \* AppData.install_data mutex poisoned by a panic under its guard
    inst,          \* the install_app future: position and locals
    load,          \* the load_manifest future: position and locals
    ret,           \* what the last step returned to the caller of a command
    calls,         \* the number of commands the frontend has invoked
    lv,            \* input and result of one call of Product::latest_version
    tar,           \* the archive, position and locals of one call of extract_tar_gz
    sav            \* one call of Install::save taken step by step

vars == <<platform, remote, manifest, mem, disk, fs, mfPoisoned, instPoisoned,
          inst, load, ret, calls, lv, tar, sav>>

(***************************************************************************)
(* Bounds of the model.                                                    *)
(***************************************************************************)
\* commands the frontend invokes in one run
MaxCalls == 5
\* chunks one download may deliver before its stream ends
MaxChunks == 1
\* longest version list handed to latest_version on its own
MaxLen == 3
\* largest major version number in those lists
MaxMajor == 1
\* largest numeric pre-release identifier in those lists (0 is "no pre-release")
MaxPre == 2
\* longest version list of a product handed to latest_version_data on its own
MaxListed == 2
\* most entries of an archive handed to extract_tar_gz
MaxEntries == 3

None == <<>>

Some(x) == <<x>>

IsSome(o) == Len(o) = 1

Unwrap(o) == o[1]

(***************************************************************************)
(* semver::Version.  pre = 0 is the empty pre-release; pre = n > 0 is the  *)
(* numeric pre-release identifier n (1.1.0-1).                             *)
(***************************************************************************)
Ver(major, minor, patch, pre) ==
    [major |-> major, minor |-> minor, patch |-> patch, pre |-> pre]

\* Version::new(0, 0, 0)
Zero == Ver(0, 0, 0, 0)

\* Prerelease::cmp: the empty pre-release is greater than any other
PreLess(a, b) ==
    \/ a # 0 /\ b = 0
    \/ a # 0 /\ b # 0 /\ a < b

\* Version::cmp: major, minor, patch, then the pre-release
VerLess(a, b) ==
    \/ a.major < b.major
    \/ a.major = b.major /\ a.minor < b.minor
    \/ a.major = b.major /\ a.minor = b.minor /\ a.patch < b.patch
    \/ a.major = b.major /\ a.minor = b.minor /\ a.patch = b.patch
         /\ PreLess(a.pre, b.pre)

\* Version::to_string, as the characters of the string
VersionToString(v) ==
    <<ToString(v.major), ".", ToString(v.minor), ".", ToString(v.patch)>>
        \o (IF v.pre = 0 THEN <<>> ELSE <<"-", ToString(v.pre)>>)

DigitValue(c) == CHOOSE n \in 0..9 : ToString(n) = c

\* Version::parse of a string of single-digit components
VersionParse(s) ==
    Ver(DigitValue(s[1]), DigitValue(s[3]), DigitValue(s[5]),
        IF Len(s) > 5 THEN DigitValue(s[7]) ELSE 0)

(***************************************************************************)
(* semver::VersionReq: a sequence of comparators [op, v].                  *)
(***************************************************************************)
ComparatorMatches(c, v) ==
    CASE c.op = "<"  -> VerLess(v, c.v)
      [] c.op = "<=" -> VerLess(v, c.v) \/ v = c.v
      [] c.op = ">"  -> VerLess(c.v, v)
      [] c.op = ">=" -> VerLess(c.v, v) \/ v = c.v
      [] OTHER       -> v = c.v

\* a pre-release version matches only a requirement one of whose comparators
\* names a pre-release of the same major.minor.patch
PreIsCompatible(c, v) ==
    /\ c.v.major = v.major
    /\ c.v.minor = v.minor
    /\ c.v.patch = v.patch
    /\ c.v.pre # 0

ReqMatches(req, v) ==
    /\ \A i \in 1..Len(req) : ComparatorMatches(req[i], v)
    /\ v.pre = 0 \/ \E i \in 1..Len(req) : PreIsCompatible(req[i], v)

(***************************************************************************)
(* manifest.rs                                                             *)
(***************************************************************************)
Platforms == {"windows", "mac", "mac-intel", "linux"}

\* the fold of latest_version started below every version, at 0.0.0-1
RECURSIVE LatestFromSeededBelow(_, _, _)
LatestFromSeededBelow(versions, n, allow_prerelease) ==
    IF n = 0 THEN Ver(0, 0, 0, 1)
    ELSE LET latest_version == LatestFromSeededBelow(versions, n - 1, allow_prerelease)
             v == versions[n].version
         IN  IF (allow_prerelease \/ v.pre = 0) /\ VerLess(latest_version, v)
             THEN v
             ELSE latest_version

\* Product::latest_version: the fold of the loop over the first n versions
RECURSIVE LatestFrom(_, _, _)
LatestFrom(versions, n, allow_prerelease) ==
    IF n = 0 THEN Zero
    ELSE LET latest_version == LatestFrom(versions, n - 1, allow_prerelease)
             v == versions[n].version
         IN  IF (allow_prerelease \/ v.pre = 0) /\ VerLess(latest_version, v)
             THEN v
             ELSE latest_version

\* latest_version taking every listed version as a candidate
latest_version_any_channel(prod, allow_prerelease) ==
    LatestFrom(prod.versions, Len(prod.versions), TRUE)

\* latest_version taking only the releases as candidates
latest_version_release_only(prod, allow_prerelease) ==
    LatestFrom(prod.versions, Len(prod.versions), FALSE)

latest_version(prod, allow_prerelease) ==
    LatestFrom(prod.versions, Len(prod.versions), allow_prerelease)

\* the slot of ProductDownloads the build selects
PlatformSlot(downloads, plat) ==
    CASE plat = "windows"   -> downloads.windows
      [] plat = "mac-intel" -> downloads.mac_intel
      [] plat = "mac"       -> downloads.mac
      [] OTHER              -> downloads.linux

\* latest_version_data falling back to another platform's slot
latest_version_data_any_slot(prod, allow_prerelease, plat) ==
    LET hits == {i \in 1..Len(prod.versions) :
                    prod.versions[i].version = latest_version(prod, allow_prerelease)}
        d == prod.versions[CHOOSE i \in hits : \A j \in hits : i <= j].downloads
    IN  IF hits = {} THEN None
        ELSE IF PlatformSlot(d, plat) # None THEN PlatformSlot(d, plat)
        ELSE IF d.windows # None THEN d.windows
        ELSE IF d.mac # None THEN d.mac
        ELSE IF d.mac_intel # None THEN d.mac_intel
        ELSE d.linux

\* latest_version_data taking the newest candidate that has an artifact for the
\* running platform
latest_version_data_newest_with_slot(prod, allow_prerelease, plat) ==
    LET have == {i \in 1..Len(prod.versions) :
                    /\ allow_prerelease \/ prod.versions[i].version.pre = 0
                    /\ PlatformSlot(prod.versions[i].downloads, plat) # None}
    IN  IF have = {} THEN None
        ELSE PlatformSlot(
                 prod.versions[CHOOSE i \in have : \A j \in have :
                                  ~VerLess(prod.versions[i].version,
                                           prod.versions[j].version)].downloads,
                 plat)

\* Product::latest_version_data: the first listed version equal to the latest
latest_version_data(prod, allow_prerelease, plat) ==
    LET hits == {i \in 1..Len(prod.versions) :
                    prod.versions[i].version = latest_version(prod, allow_prerelease)}
    IN  IF hits = {} THEN None
        ELSE PlatformSlot(
                 prod.versions[CHOOSE i \in hits : \A j \in hits : i <= j].downloads,
                 plat)

(***************************************************************************)
(* install.rs                                                              *)
(***************************************************************************)
\* InstalledProduct::default()
DefaultProduct ==
    [name |-> "", description |-> "", version |-> None,
     execute_working_directory |-> None, main_executable |-> None,
     use_prerelease |-> FALSE]

\* Install::default(): no products
EmptyInstall == <<>>

\* get_mut_product_or_default inserting the default record unconditionally
get_mut_product_or_default_resets(install, id) ==
    (id :> [name |-> "", description |-> "", version |-> <<>>,
            execute_working_directory |-> <<>>, main_executable |-> <<>>,
            use_prerelease |-> FALSE]) @@ install

\* get_mut_product_or_default keeping no record but the one asked for
get_mut_product_or_default_alone(install, id) ==
    id :> (IF id \in DOMAIN install THEN install[id]
           ELSE [name |-> "", description |-> "", version |-> <<>>,
                 execute_working_directory |-> <<>>, main_executable |-> <<>>,
                 use_prerelease |-> FALSE])

\* Install::get_mut_product_or_default: the store after the call
get_mut_product_or_default(install, id) ==
    IF id \in DOMAIN install THEN install ELSE (id :> DefaultProduct) @@ install

\* serde_json's rendering of an Option<String>
JsonOption(o) ==
    IF IsSome(o) THEN [t |-> "string", s |-> Unwrap(o)] ELSE [t |-> "null"]

\* #[derive(Serialize)] of InstalledProduct: every field is written
SerializeProduct(p) ==
    [name |-> [t |-> "string", s |-> p.name],
     description |-> [t |-> "string", s |-> p.description],
     version |-> JsonOption(p.version),
     execute_working_directory |-> JsonOption(p.execute_working_directory),
     main_executable |-> JsonOption(p.main_executable),
     use_prerelease |-> [t |-> "bool", b |-> p.use_prerelease]]

\* serde_json::to_writer of the Install: {"products": {id: {...}}}
Serialize(install) ==
    [products |-> [id \in DOMAIN install |-> SerializeProduct(install[id])]]

\* an Option<String> field always read as None
ReadOptionDropped(obj, f) == <<>>

\* an Option<String> field: absent and null both read as None
ReadOption(obj, f) ==
    IF f \in DOMAIN obj /\ obj[f].t = "string" THEN Some(obj[f].s) ELSE None

\* a String field with #[serde(default = "String::default")]
ReadString(obj, f) ==
    IF f \in DOMAIN obj THEN obj[f].s ELSE ""

\* what #[derive(Deserialize)] accepts: use_prerelease has no default
ProductParses(obj) ==
    /\ "use_prerelease" \in DOMAIN obj
    /\ obj["use_prerelease"].t = "bool"
    /\ \A f \in {"name", "description"} : f \in DOMAIN obj => obj[f].t = "string"
    /\ \A f \in {"version", "execute_working_directory", "main_executable"} :
           f \in DOMAIN obj => obj[f].t \in {"string", "null"}

DeserializeProduct(obj) ==
    [name |-> ReadString(obj, "name"),
     description |-> ReadString(obj, "description"),
     version |-> ReadOption(obj, "version"),
     execute_working_directory |-> ReadOption(obj, "execute_working_directory"),
     main_executable |-> ReadOption(obj, "main_executable"),
     use_prerelease |-> obj["use_prerelease"].b]

\* whether serde_json::from_reader::<Install> succeeds on the document
Parses(json) ==
    /\ "products" \in DOMAIN json
    /\ \A id \in DOMAIN json.products : ProductParses(json.products[id])

Deserialize(json) ==
    [id \in DOMAIN json.products |-> DeserializeProduct(json.products[id])]

\* the state file: missing, or holding a document
NoFile == [kind |-> "absent"]

FileOf(json) == [kind |-> "json", body |-> json]

\* the state file right after File::create, or with only the first part of a
\* document written: a text that is no JSON document
CutFile == [kind |-> "cut"]

\* a save that leaves no file behind
save_writes_nothing(install) == [kind |-> "absent"]

\* Install::save: File::create truncates, to_writer writes the whole store
save(install) == FileOf(Serialize(install))

(***************************************************************************)
(* gzip.rs: extract_tar_gz.  An entry of the archive is the components of  *)
(* its path and whether the path string ends with '/', as the name of a    *)
(* directory entry does.  The output is the set of paths below output_dir  *)
(* that exist after the call.                                              *)
(***************************************************************************)
TarEntry(path, dir) == [path |-> path, dir |-> dir]

\* path_str.ends_with(MAIN_SEPARATOR_STR): the separator is "\\" on Windows,
\* where no path of a tar archive ends with it
EndsWithSeparator(entry, plat) == entry.dir /\ plat # "windows"

\* path_str.starts_with(topmost_dir), topmost_dir being the path string of a
\* directory entry
StartsWith(entry, top) ==
    /\ Len(top) <= Len(entry.path)
    /\ SubSeq(entry.path, 1, Len(top)) = top
    /\ Len(entry.path) > Len(top) \/ entry.dir

\* the first pass from entry i on (gzip.rs 14-42)
RECURSIVE FirstPassFrom(_, _, _, _)
FirstPassFrom(archive, i, topmost_dir, plat) ==
    IF i > Len(archive) THEN topmost_dir
    ELSE IF EndsWithSeparator(archive[i], plat)
    THEN IF topmost_dir = None
         THEN FirstPassFrom(archive, i + 1, Some(archive[i].path), plat)
         ELSE IF StartsWith(archive[i], Unwrap(topmost_dir))
         THEN FirstPassFrom(archive, i + 1, topmost_dir, plat)
         ELSE None
    ELSE IF topmost_dir # None /\ StartsWith(archive[i], Unwrap(topmost_dir))
    THEN FirstPassFrom(archive, i + 1, topmost_dir, plat)
    ELSE None

\* the first pass keeping the first directory entry, whatever follows it
FirstPassFirstDirectory(archive, plat) ==
    LET dirs == {i \in 1..Len(archive) : EndsWithSeparator(archive[i], plat)}
    IN  IF dirs = {} THEN None
        ELSE Some(archive[CHOOSE i \in dirs : \A j \in dirs : i <= j].path)

\* topmost_dir after the first pass
FirstPass(archive, plat) == FirstPassFrom(archive, 1, None, plat)

\* Path::strip_prefix, by components
StripPrefix(path, top) ==
    IF Len(top) <= Len(path) /\ SubSeq(path, 1, Len(top)) = top
    THEN Some(SubSeq(path, Len(top) + 1, Len(path)))
    ELSE None

\* create_dir_all(parent) and entry.unpack(output_dir.join(rel))
Unpacked(rel) == {SubSeq(rel, 1, n) : n \in 1..Len(rel)}

\* the directory extract_tar_gz extracts into, as the names from the root
output_dir == <<"T">>

\* Path::join: an absolute path replaces the base
Join(base, rel) ==
    IF rel # <<>> /\ rel[1] = "/" THEN Tail(rel) ELSE base \o rel

\* the place a path names once its ".." components are followed
RECURSIVE Resolved(_)
Resolved(path) ==
    IF path = <<>> THEN <<>>
    ELSE LET parent == Resolved(SubSeq(path, 1, Len(path) - 1))
         IN  IF path[Len(path)] = ".."
             THEN SubSeq(parent, 1, Len(parent) - 1)
             ELSE Append(parent, path[Len(path)])

\* where entry.unpack(output_dir.join(rel)) writes
WrittenAt(rel) == Resolved(Join(output_dir, rel))

\* what the second pass writes for one entry (gzip.rs 55-74): an entry the
\* prefix cannot be stripped from is passed over
ExtractEntry(entry, topmost_dir) ==
    IF topmost_dir # None
    THEN IF StripPrefix(entry.path, Unwrap(topmost_dir)) # None
         THEN Unpacked(Unwrap(StripPrefix(entry.path, Unwrap(topmost_dir))))
         ELSE {}
    ELSE Unpacked(entry.path)

\* the second pass (gzip.rs 50-75)
SecondPass(archive, topmost_dir) ==
    UNION {ExtractEntry(archive[i], topmost_dir) : i \in 1..Len(archive)}

(***************************************************************************)
(* The documents MANIFEST_URL may serve, and what their artifacts hold.    *)
(***************************************************************************)
Download(url, strategy, executable) ==
    [url |-> url, strategy |-> strategy, executable |-> executable]

GzippedTarball == [kind |-> "GzippedTarball"]

ZipFile == [kind |-> "ZipFile"]

SingleFile(name, chmod) == [kind |-> "File", name |-> name, chmod |-> chmod]

Slots(windows, mac, mac_intel, linux) ==
    [windows |-> windows, mac |-> mac, mac_intel |-> mac_intel, linux |-> linux]

\* the removal rules of the product "angel"
AngelRemovals ==
    << [on_upgrade_from |-> <<[op |-> "<", v |-> Ver(2, 0, 0, 0)]>>,
        on |-> None, files |-> <<"old">>],
       [on_upgrade_from |-> <<[op |-> ">=", v |-> Ver(1, 0, 0, 0)]>>,
        on |-> Some({"windows"}), files |-> <<"app">>] >>

\* 1.0.0 for Windows and Linux, the pre-release 1.1.0-1 for Windows only
AngelTwoChannels ==
    [id |-> "p1", name |-> "Angel", description |-> "Suite",
     install_directory |-> "angel", removals |-> AngelRemovals,
     versions |->
       << [version |-> Ver(1, 0, 0, 0),
           downloads |-> Slots(Some(Download("w100", GzippedTarball, Some("app"))),
                               None, None,
                               Some(Download("l100", GzippedTarball, Some("app"))))],
          [version |-> Ver(1, 1, 0, 1),
           downloads |-> Slots(Some(Download("w110", ZipFile, None)),
                               None, None, None)] >>]

\* a single file for every platform, newer pre-release listed first
AngelSingleFile ==
    [id |-> "p1", name |-> "Angel 2", description |-> "Suite 2",
     install_directory |-> "angel", removals |-> AngelRemovals,
     versions |->
       << [version |-> Ver(2, 1, 0, 1),
           downloads |-> Slots(None, Some(Download("m210", ZipFile, Some("app"))),
                               None, None)],
          [version |-> Ver(2, 0, 0, 0),
           downloads |-> Slots(Some(Download("f200", SingleFile("app", FALSE), None)),
                               Some(Download("f200", SingleFile("app", TRUE), Some("app"))),
                               Some(Download("f200", SingleFile("app", TRUE), Some("app"))),
                               Some(Download("f200", SingleFile("app", TRUE), None)))] >>]

\* a manifest whose only listed version is 0.0.0, shipped for Linux
AngelZero ==
    [id |-> "p1", name |-> "Angel 0", description |-> "Suite 0",
     install_directory |-> "angel", removals |-> <<>>,
     versions |->
       << [version |-> Ver(0, 0, 0, 0),
           downloads |-> Slots(None, None, None,
                               Some(Download("f200", SingleFile("app", TRUE),
                                             Some("app"))))] >>]

Catalogs ==
    { [products |-> <<AngelTwoChannels>>],
      [products |-> <<AngelSingleFile>>],
      [products |-> <<AngelZero>>] }

\* the product ids a caller passes: "p2" is in no catalog
Ids == {"p1", "p2"}

\* the entries the artifact at a url unpacks to, in archive order, relative to
\* the install directory
Ships(url) ==
    CASE url \in {"w100", "l100"} -> <<"old", "app">>
      [] OTHER                    -> <<"app">>

(***************************************************************************)
(* lib.rs: paths                                                           *)
(***************************************************************************)
\* local_install_dir()
local_install_dir == <<"angelsuite">>

\* local_install_dir() joined with the product's install_directory
InstallDirectory(prod) == Append(local_install_dir, prod.install_directory)

IsPrefix(p, q) == Len(p) <= Len(q) /\ SubSeq(q, 1, Len(p)) = p

\* fs::remove_dir_all / fs::remove_file of a path that exists
RemovePath(files, path) == {q \in files : ~IsPrefix(path, q)}

\* fs::create_dir_all
CreateDirAll(files, path) == files \cup {SubSeq(path, 1, n) : n \in 1..Len(path)}

(***************************************************************************)
(* lib.rs: the commands.  A command that awaits is one action per stretch  *)
(* between two awaits; a command that does not is one action.  A panic     *)
(* under a MutexGuard poisons that mutex, and lock().unwrap() on a         *)
(* poisoned mutex panics.  Writes of the state file and the creation of    *)
(* the install directory are taken to succeed; a deletion may fail.        *)
(***************************************************************************)
\* no command returned in this step
NoReturn == [cmd |-> "none", id |-> "", arg |-> FALSE, res |-> "", out |-> <<>>]

\* the command, its id argument and (set_prerelease) its flag, and its outcome
Returned(cmd, id, res) ==
    [cmd |-> cmd, id |-> id, arg |-> FALSE, res |-> res, out |-> <<>>]

\* load_manifest returning Ok(result): out is result.products
ReturnedProducts(res, products) ==
    [Returned("load_manifest", "", res) EXCEPT !.out = products]

InstIdle ==
    [pc |-> "idle", id |-> "", install |-> EmptyInstall, prod |-> None,
     version |-> Zero, download |-> None, chunks |-> 0, complete |-> TRUE,
     undeleted |-> {}]

LoadIdle == [pc |-> "idle", install_data |-> EmptyInstall]

LvIdle == [versions |-> <<>>, allow_prerelease |-> FALSE, result |-> None]

TarIdle == [pc |-> "idle", archive |-> <<>>, topmost_dir |-> None, out |-> {}]

SavIdle == [pc |-> "idle", install |-> EmptyInstall, previous |-> NoFile]

\* the products of the cached manifest with the given id, in manifest order
Matching(mf, id) == {i \in 1..Len(mf.products) : mf.products[i].id = id}

\* the product the loop `for prod in mf.products()` stops at
FindProduct(mf, id) ==
    mf.products[CHOOSE i \in Matching(mf, id) : \A j \in Matching(mf, id) : i <= j]

\* the platform test of a removal rule (lib.rs 287-309)
RemovalTargetsPlatform(removal, plat) ==
    IsSome(removal.on) => plat \in Unwrap(removal.on)

\* a removal rule applied on every platform, whatever its `on` names
RemovalAppliesAnyPlatform(removal, v, plat) ==
    ReqMatches(removal.on_upgrade_from, v)

\* whether the removal pass applies a rule (lib.rs 285-309)
RemovalApplies(removal, v, plat) ==
    /\ ReqMatches(removal.on_upgrade_from, v)
    /\ RemovalTargetsPlatform(removal, plat)

\* the removal pass taking a product that is not installed as installed at 0.0.0
RemovalTargetsFromZero(prod, current_version, plat) ==
    UNION { {Append(InstallDirectory(prod), prod.removals[i].files[k]) :
                k \in 1..Len(prod.removals[i].files)} :
            i \in {j \in 1..Len(prod.removals) :
                     RemovalApplies(prod.removals[j],
                                    IF IsSome(current_version)
                                    THEN VersionParse(Unwrap(current_version))
                                    ELSE Zero,
                                    plat)} }

\* the paths the removal pass deletes (lib.rs 281-325)
RemovalTargets(prod, current_version, plat) ==
    IF IsSome(current_version)
    THEN UNION { {Append(InstallDirectory(prod), prod.removals[i].files[k]) :
                     k \in 1..Len(prod.removals[i].files)} :
                 i \in {j \in 1..Len(prod.removals) :
                          RemovalApplies(prod.removals[j],
                                         VersionParse(Unwrap(current_version)),
                                         plat)} }
    ELSE {}

RECURSIVE RemoveAll(_, _)
RemoveAll(files, targets) ==
    IF targets = {} THEN files
    ELSE LET t == CHOOSE t \in targets : TRUE
         IN  RemoveAll(RemovePath(files, t), targets \ {t})

\* the removal pass given up when a listed file is missing or cannot be deleted
RemovalProceedsIfAllDeleted(files, targets, undeleted) ==
    targets \subseteq files /\ undeleted = {}

\* the removal pass goes on past a listed file that is missing (symlink_metadata
\* fails, lib.rs 314) and past a deletion that fails (let _ =, lib.rs 317, 320)
RemovalProceeds(files, targets, undeleted) == TRUE

\* the files on disk once the removal pass and create_dir_all have run; the
\* deletion of the targets in undeleted has failed
AfterRemovalPass(files, prod, current_version, plat, undeleted) ==
    CreateDirAll(RemoveAll(files,
                           RemovalTargets(prod, current_version, plat) \ undeleted),
                 InstallDirectory(prod))

\* the files fs::remove_dir_all(dir) may leave: none under dir, or, when it
\* fails, dir with any of the paths below it (lib.rs 450)
RemoveDirAllOutcomes(files, dir) ==
    {RemovePath(files, dir)}
        \cup {files \ gone : gone \in SUBSET {q \in files : IsPrefix(dir, q) /\ q # dir}}

\* remove_app given up when the directory is still there
RemoveDirProceedsIfGone(files, dir) == dir \notin files

\* remove_app logs the error of remove_dir_all and goes on (lib.rs 450-453)
RemoveDirProceeds(files, dir) == TRUE

\* the paths a strategy writes, in order, when it runs to its end (lib.rs 364-405)
StrategyWrites(prod, download) ==
    IF download.strategy.kind = "File"
    THEN <<Append(InstallDirectory(prod), download.strategy.name)>>
    ELSE [k \in 1..Len(Ships(download.url)) |->
            Append(InstallDirectory(prod), Ships(download.url)[k])]

\* install_app recording the version only, without the manifest's snapshot
InstalledRecordVersionOnly(rec, prod, version, download) ==
    [rec EXCEPT !.version = Some(VersionToString(version))]

\* the record install_app writes once the strategy has succeeded (lib.rs 408-420)
InstalledRecord(rec, prod, version, download) ==
    LET named == [rec EXCEPT !.name = prod.name,
                             !.description = prod.description,
                             !.version = Some(VersionToString(version))]
    IN  IF IsSome(download.executable)
        THEN [named EXCEPT
                !.main_executable =
                    Some(Append(InstallDirectory(prod), Unwrap(download.executable))),
                !.execute_working_directory = Some(InstallDirectory(prod))]
        ELSE named

\* remove_app putting a fresh record in place of the old one
RemovedRecordFresh(rec) ==
    [name |-> "", description |-> "", version |-> None,
     execute_working_directory |-> None, main_executable |-> None,
     use_prerelease |-> FALSE]

\* remove_app clearing the version and keeping the launch path
RemovedRecordKeepsLaunchPath(rec) == [rec EXCEPT !.version = None]

\* the record remove_app leaves (lib.rs 456-459)
RemovedRecord(rec) ==
    [rec EXCEPT !.version = None, !.main_executable = None,
                !.execute_working_directory = None]

\* an error return that stores the clone it worked on
AbandonInstallStoresClone(shared, clone) == clone

\* the result of the strategy not looked at
StrategyOkUnchecked(n, paths) == TRUE

\* an error return of install_app drops its clone: the shared store stays as it is
\* (lib.rs 332, 343, 354, 399, 403)
AbandonInstall(shared, clone) == shared

\* whether the strategy returned Ok: it wrote all n of its paths (lib.rs 369-403)
StrategyOk(n, paths) == n = Len(paths)

Init ==
    /\ platform \in Platforms
    /\ remote \in Catalogs
    /\ manifest = None
    /\ mem = EmptyInstall
    /\ disk = NoFile
    /\ fs = {}
    /\ mfPoisoned = FALSE
    /\ instPoisoned = FALSE
    /\ inst = InstIdle
    /\ load = LoadIdle
    /\ ret = NoReturn
    /\ calls = 0
    /\ tar = TarIdle
    /\ sav = SavIdle
    /\ lv = LvIdle

\* load_manifest up to its first await: the state file is read without the lock
LoadRead ==
    /\ calls < MaxCalls
    /\ calls' = calls + 1
    /\ load.pc = "idle"
    /\ IF disk.kind = "absent"
       THEN /\ disk' = save(EmptyInstall)
            /\ load' = [pc |-> "fetch",
                        install_data |-> Deserialize(Serialize(EmptyInstall))]
            /\ ret' = NoReturn
       ELSE IF disk.kind = "json" /\ Parses(disk.body)
       THEN /\ load' = [pc |-> "fetch", install_data |-> Deserialize(disk.body)]
            /\ ret' = NoReturn
            /\ UNCHANGED disk
       ELSE /\ ret' = Returned("load_manifest", "", "panic")
            /\ UNCHANGED <<disk, load>>
    /\ UNCHANGED <<platform, remote, manifest, mem, fs, mfPoisoned, instPoisoned,
                   inst, lv, tar, sav>>

\* the entry load_manifest builds for a stored record when working offline
\* (the icon is left out: InstalledProduct has no such field)
OfflineProduct(prod_id, prod) ==
    [id |-> prod_id,
     name |-> prod.name,
     local_version |-> prod.version,
     remote_version |-> VersionToString(Zero),
     remote_version_prerelease |-> VersionToString(Zero),
     description |-> prod.description,
     has_os_match_prerelease |-> IsSome(prod.main_executable),
     has_os_match |-> IsSome(prod.main_executable),
     can_start |-> IsSome(prod.main_executable),
     allow_prerelease |-> prod.use_prerelease]

\* the stored records listed offline, whether or not a version is recorded
OfflineListedAll(install_data) == DOMAIN install_data

\* the stored records the offline loop does not skip
OfflineListed(install_data) ==
    {prod_id \in DOMAIN install_data : IsSome(install_data[prod_id].version)}

\* the lists the offline loop can build: the records are visited in the
\* iteration order of the map, which is any order
OfflineResults(install_data) ==
    LET listed == OfflineListed(install_data)
        orders == {o \in [1..Cardinality(listed) -> listed] :
                      \A i, j \in DOMAIN o : o[i] = o[j] => i = j}
    IN  {[i \in DOMAIN o |-> OfflineProduct(o[i], install_data[o[i]])] : o \in orders}

\* the entry load_manifest builds for a product of the fetched manifest
OnlineProduct(prod, install_data, plat) ==
    LET stored == prod.id \in DOMAIN install_data
    IN  [id |-> prod.id,
         name |-> prod.name,
         local_version |-> IF stored THEN install_data[prod.id].version ELSE None,
         remote_version |-> VersionToString(latest_version(prod, FALSE)),
         remote_version_prerelease |-> VersionToString(latest_version(prod, TRUE)),
         description |-> prod.description,
         has_os_match |-> IsSome(latest_version_data(prod, FALSE, plat)),
         has_os_match_prerelease |-> IsSome(latest_version_data(prod, TRUE, plat)),
         can_start |-> stored /\ IsSome(install_data[prod.id].main_executable),
         allow_prerelease |-> stored /\ install_data[prod.id].use_prerelease]

\* one entry per product of the manifest, in manifest order
OnlineResult(body, install_data, plat) ==
    [i \in 1..Len(body.products) |->
        OnlineProduct(body.products[i], install_data, plat)]

(***************************************************************************)
(* app.rs: the Item component, from the properties of one returned entry   *)
(* and the component's own allow_prereleases state                         *)
(***************************************************************************)
ItemRemoteVersion(props, allow_prereleases) ==
    IF allow_prereleases THEN props.remote_version_prerelease
    ELSE props.remote_version

ItemHasOsMatch(props, allow_prereleases) ==
    IF allow_prereleases THEN props.has_os_match_prerelease
    ELSE props.has_os_match

ItemState(props, allow_prereleases) ==
    LET remote_version == ItemRemoteVersion(props, allow_prereleases)
    IN  IF IsSome(props.local_version)
        THEN LET local_version == Unwrap(props.local_version)
             IN  IF \/ local_version = remote_version
                    \/ /\ local_version # VersionToString(Zero)
                       /\ remote_version = VersionToString(Zero)
                 THEN "InstalledLatest"
                 ELSE "InstalledUpdate"
        ELSE "NotInstalled"

\* state_str, by the format it takes
state_str(props, allow_prereleases) ==
    LET state == ItemState(props, allow_prereleases)
    IN  IF state = "InstalledLatest" THEN "Installed (latest)"
        ELSE IF state = "InstalledUpdate" THEN "Installed (updatable)"
        ELSE IF \/ ItemRemoteVersion(props, allow_prereleases) = VersionToString(Zero)
                \/ ~ItemHasOsMatch(props, allow_prereleases)
        THEN "Not available for your system"
        ELSE "available"

hide_install_upgrade(props, allow_prereleases) ==
    IF ItemState(props, allow_prereleases) = "InstalledLatest" THEN TRUE
    ELSE \/ ItemRemoteVersion(props, allow_prereleases) = VersionToString(Zero)
         \/ ~ItemHasOsMatch(props, allow_prereleases)

\* load_manifest from the manifest fetch to its return
LoadFetch ==
    /\ UNCHANGED calls
    /\ load.pc = "fetch"
    /\ load' = LoadIdle
    /\ \E fetched \in {"offline", "unreadable", "ok"} :
         IF fetched = "offline"
         THEN IF instPoisoned
              THEN /\ ret' = Returned("load_manifest", "", "panic")
                   /\ UNCHANGED <<manifest, mem>>
              ELSE /\ mem' = load.install_data
                   /\ \E products \in OfflineResults(load.install_data) :
                        ret' = ReturnedProducts("offline", products)
                   /\ UNCHANGED manifest
         ELSE IF fetched = "unreadable"
         THEN /\ ret' = Returned("load_manifest", "", "err_manifest")
              /\ UNCHANGED <<manifest, mem>>
         ELSE IF mfPoisoned
         THEN /\ ret' = Returned("load_manifest", "", "panic")
              /\ UNCHANGED <<manifest, mem>>
         ELSE IF instPoisoned
         THEN /\ manifest' = Some(remote)
              /\ ret' = Returned("load_manifest", "", "panic")
              /\ UNCHANGED mem
         ELSE /\ manifest' = Some(remote)
              /\ mem' = load.install_data
              /\ ret' = ReturnedProducts("ok", OnlineResult(remote, load.install_data,
                                                           platform))
    /\ UNCHANGED <<platform, remote, disk, fs, mfPoisoned, instPoisoned, inst, lv, tar, sav>>

\* set_prerelease: the whole command runs under the install_data lock
SetPrerelease(id, allow_prerelease) ==
    /\ calls < MaxCalls
    /\ calls' = calls + 1
    /\ IF instPoisoned
       THEN /\ ret' = [Returned("set_prerelease", id, "panic")
                         EXCEPT !.arg = allow_prerelease]
            /\ UNCHANGED <<mem, disk>>
       ELSE /\ mem' = [get_mut_product_or_default(mem, id)
                         EXCEPT ![id].use_prerelease = allow_prerelease]
            /\ disk' = save(mem')
            /\ ret' = [Returned("set_prerelease", id, "ok")
                         EXCEPT !.arg = allow_prerelease]
    /\ UNCHANGED <<platform, remote, manifest, fs, mfPoisoned, instPoisoned,
                   inst, load, lv, tar, sav>>

\* install_app up to its first await (lib.rs 260-341)
InstallStart(id) ==
    /\ calls < MaxCalls
    /\ calls' = calls + 1
    /\ calls < MaxCalls
    /\ calls' = calls + 1
    /\ inst.pc = "idle"
    /\ IF instPoisoned \/ mfPoisoned
       THEN /\ ret' = Returned("install_app", id, "panic")
            /\ UNCHANGED <<mem, fs, mfPoisoned, inst>>
       ELSE IF manifest = None
       THEN /\ mfPoisoned' = TRUE
            /\ ret' = Returned("install_app", id, "panic")
            /\ UNCHANGED <<mem, fs, inst>>
       ELSE IF Matching(Unwrap(manifest), id) = {}
       THEN /\ ret' = Returned("install_app", id, "err_not_found")
            /\ UNCHANGED <<mem, fs, mfPoisoned, inst>>
       ELSE LET prod == FindProduct(Unwrap(manifest), id)
                install == get_mut_product_or_default(mem, id)
                use_prerelease == install[id].use_prerelease
                version == latest_version(prod, use_prerelease)
                download == latest_version_data(prod, use_prerelease, platform)
                targets == RemovalTargets(prod, install[id].version, platform)
            IN  \E undeleted \in SUBSET (targets \cap fs) :
                  IF ~RemovalProceeds(fs, targets, undeleted)
                  THEN /\ fs' = RemoveAll(fs, targets \ undeleted)
                       /\ ret' = Returned("install_app", id, "err_removal")
                       /\ mem' = AbandonInstall(mem, install)
                       /\ UNCHANGED <<mfPoisoned, inst>>
                  ELSE /\ fs' = AfterRemovalPass(fs, prod, install[id].version,
                                                 platform, undeleted)
                       /\ UNCHANGED mfPoisoned
                       /\ IF download = None
                          THEN /\ ret' = Returned("install_app", id, "err_no_download")
                               /\ mem' = AbandonInstall(mem, install)
                               /\ UNCHANGED inst
                          ELSE /\ inst' = [pc |-> "get", id |-> id,
                                           install |-> install,
                                           prod |-> Some(prod), version |-> version,
                                           download |-> download, chunks |-> 0,
                                           complete |-> TRUE,
                                           undeleted |-> undeleted]
                               /\ ret' = NoReturn
                               /\ UNCHANGED mem
    /\ UNCHANGED <<platform, remote, manifest, disk, instPoisoned, load, lv, tar, sav>>

\* reqwest::get(download.url()).await and the creation of the temporary file
InstallGet ==
    /\ UNCHANGED calls
    /\ inst.pc = "get"
    /\ \E ok \in BOOLEAN :
         IF ok
         THEN /\ inst' = [inst EXCEPT !.pc = "chunk"]
              /\ ret' = NoReturn
              /\ UNCHANGED mem
         ELSE /\ inst' = InstIdle
              /\ ret' = Returned("install_app", inst.id, "err_get")
              /\ mem' = AbandonInstall(mem, inst.install)
    /\ UNCHANGED <<platform, remote, manifest, disk, fs, mfPoisoned,
                   instPoisoned, load, lv, tar, sav>>

\* whether the temporary file holds every chunk received once writer went out
\* of scope: write_all leaves data in the BufWriter's buffer, the drop flushes
\* it and ignores a failure to do so
WriterDropOutcomes(chunks) == IF chunks = 0 THEN {TRUE} ELSE BOOLEAN

\* one req.chunk().await of the download loop, with the write_all of the chunk
\* it delivers ("error": chunk() or write_all returned Err); at the end of the
\* stream the writer is dropped
InstallChunk ==
    /\ UNCHANGED calls
    /\ inst.pc = "chunk"
    /\ \E chunk \in {"data", "end", "error"} :
         IF chunk = "data"
         THEN /\ inst.chunks < MaxChunks
              /\ inst' = [inst EXCEPT !.chunks = @ + 1]
              /\ ret' = NoReturn
              /\ UNCHANGED mem
         ELSE IF chunk = "end"
         THEN /\ \E complete \in WriterDropOutcomes(inst.chunks) :
                   inst' = [inst EXCEPT !.pc = "strategy", !.complete = complete]
              /\ ret' = NoReturn
              /\ UNCHANGED mem
         ELSE /\ inst' = InstIdle
              /\ ret' = Returned("install_app", inst.id, "err_chunk")
              /\ mem' = AbandonInstall(mem, inst.install)
    /\ UNCHANGED <<platform, remote, manifest, disk, fs, mfPoisoned,
                   instPoisoned, load, lv, tar, sav>>

\* the most paths the strategy can write: fs::copy needs the install directory to
\* be there still, the archive extractors create the parents they need
Writable(files, prod, download, paths) ==
    IF download.strategy.kind = "File" /\ InstallDirectory(prod) \notin files
    THEN 0
    ELSE Len(paths)

\* the strategy, the update of the record and install.save() (lib.rs 364-423);
\* a strategy that fails has written the paths before the failing one; the
\* temporary file is not read again once the strategy is over
InstallStrategy ==
    /\ UNCHANGED calls
    /\ inst.pc = "strategy"
    /\ LET prod == Unwrap(inst.prod)
           paths == StrategyWrites(prod, Unwrap(inst.download))
       IN  \E n \in 0..Writable(fs, prod, Unwrap(inst.download), paths) :
             /\ fs' = IF n = 0 THEN fs
                      ELSE CreateDirAll(fs, InstallDirectory(prod))
                               \cup {paths[k] : k \in 1..n}
             /\ IF StrategyOk(n, paths)
                THEN /\ inst' = [inst EXCEPT
                                   !.pc = "publish",
                                   !.chunks = 0,
                                   !.complete = TRUE,
                                   !.install[inst.id] =
                                       InstalledRecord(@, prod, inst.version,
                                                       Unwrap(inst.download))]
                     /\ disk' = save(inst'.install)
                     /\ ret' = NoReturn
                     /\ UNCHANGED mem
                ELSE /\ inst' = InstIdle
                     /\ ret' = Returned("install_app", inst.id, "err_extract")
                     /\ mem' = AbandonInstall(mem, inst.install)
                     /\ UNCHANGED disk
    /\ UNCHANGED <<platform, remote, manifest, mfPoisoned, instPoisoned,
                   load, lv, tar, sav>>

\* *state.install_data.lock().unwrap() = install, and the return (lib.rs 424-426)
InstallPublish ==
    /\ UNCHANGED calls
    /\ inst.pc = "publish"
    /\ inst' = InstIdle
    /\ IF instPoisoned
       THEN /\ ret' = Returned("install_app", inst.id, "panic")
            /\ UNCHANGED mem
       ELSE /\ mem' = inst.install
            /\ ret' = Returned("install_app", inst.id, "ok")
    /\ UNCHANGED <<platform, remote, manifest, disk, fs, mfPoisoned, instPoisoned,
                   load, lv, tar, sav>>

\* remove_app: the whole command runs under both locks (lib.rs 440-468)
Remove(id) ==
    /\ calls < MaxCalls
    /\ calls' = calls + 1
    /\ IF mfPoisoned
       THEN /\ ret' = Returned("remove_app", id, "panic")
            /\ UNCHANGED <<mem, disk, fs, mfPoisoned, instPoisoned>>
       ELSE IF instPoisoned
       THEN /\ mfPoisoned' = TRUE
            /\ ret' = Returned("remove_app", id, "panic")
            /\ UNCHANGED <<mem, disk, fs, instPoisoned>>
       ELSE IF manifest = None
       THEN /\ mfPoisoned' = TRUE
            /\ instPoisoned' = TRUE
            /\ ret' = Returned("remove_app", id, "panic")
            /\ UNCHANGED <<mem, disk, fs>>
       ELSE IF Matching(Unwrap(manifest), id) = {}
       THEN /\ ret' = Returned("remove_app", id, "err_not_found")
            /\ UNCHANGED <<mem, disk, fs, mfPoisoned, instPoisoned>>
       ELSE LET prod == FindProduct(Unwrap(manifest), id)
            IN  \E after \in RemoveDirAllOutcomes(fs, InstallDirectory(prod)) :
                  /\ fs' = after
                  /\ UNCHANGED <<mfPoisoned, instPoisoned>>
                  /\ IF ~RemoveDirProceeds(after, InstallDirectory(prod))
                     THEN /\ ret' = Returned("remove_app", id, "err_remove_dir")
                          /\ UNCHANGED <<mem, disk>>
                     ELSE /\ mem' = [get_mut_product_or_default(mem, id)
                                       EXCEPT ![id] = RemovedRecord(@)]
                          /\ disk' = save(mem')
                          /\ ret' = Returned("remove_app", id, "ok")
    /\ UNCHANGED <<platform, remote, manifest, inst, load, lv, tar, sav>>

\* start_app (lib.rs 479-511)
Start(id) ==
    /\ calls < MaxCalls
    /\ calls' = calls + 1
    /\ IF instPoisoned
       THEN ret' = Returned("start_app", id, "panic")
       ELSE IF id \notin DOMAIN mem
       THEN ret' = Returned("start_app", id, "err_not_found")
       ELSE IF IsSome(mem[id].main_executable)
               /\ Unwrap(mem[id].main_executable) \notin fs
       THEN ret' = Returned("start_app", id, "err_canonicalize")
       ELSE ret' = Returned("start_app", id, "ok")
    /\ UNCHANGED <<platform, remote, manifest, mem, disk, fs, mfPoisoned,
                   instPoisoned, inst, load, lv, tar, sav>>

Next ==
    \/ LoadRead
    \/ LoadFetch
    \/ \E id \in Ids, allow_prerelease \in BOOLEAN : SetPrerelease(id, allow_prerelease)
    \/ \E id \in Ids : InstallStart(id)
    \/ InstallGet
    \/ InstallChunk
    \/ InstallStrategy
    \/ InstallPublish
    \/ \E id \in Ids : Remove(id)
    \/ \E id \in Ids : Start(id)

Spec == Init /\ [][Next]_vars

(***************************************************************************)
(* Product::latest_version on its own: every version list of at most       *)
(* MaxLen versions, with and without pre-releases allowed.                 *)
(***************************************************************************)
LvVersions == {Ver(major, 0, 0, pre) : major \in 0..MaxMajor, pre \in 0..MaxPre}

LvLists == UNION {[1..n -> LvVersions] : n \in 0..MaxLen}

\* a product with the given versions and no downloads
ProductOf(versions) ==
    [id |-> "p1", name |-> "", description |-> "", install_directory |-> "angel",
     removals |-> <<>>,
     versions |-> [i \in 1..Len(versions) |->
                     [version |-> versions[i],
                      downloads |-> Slots(None, None, None, None)]]]

InitLV ==
    /\ platform = "linux"
    /\ remote = [products |-> <<>>]
    /\ manifest = None
    /\ mem = EmptyInstall
    /\ disk = NoFile
    /\ fs = {}
    /\ mfPoisoned = FALSE
    /\ instPoisoned = FALSE
    /\ inst = InstIdle
    /\ load = LoadIdle
    /\ ret = NoReturn
    /\ calls = 0
    /\ tar = TarIdle
    /\ sav = SavIdle
    /\ lv \in {[versions |-> l, allow_prerelease |-> a, result |-> None] :
                 l \in LvLists, a \in BOOLEAN}

LvCall ==
    /\ lv.result = None
    /\ lv' = [lv EXCEPT !.result =
                Some(latest_version(ProductOf(lv.versions), lv.allow_prerelease))]
    /\ UNCHANGED <<platform, remote, manifest, mem, disk, fs, mfPoisoned,
                   instPoisoned, inst, load, ret, calls, tar, sav>>

NextLV == LvCall

SpecLV == InitLV /\ [][NextLV]_vars

(***************************************************************************)
(* Product::latest_version_data on its own: every product of at most       *)
(* MaxListed versions, each with artifacts for one of a few sets of        *)
(* platforms, on every platform.                                           *)
(***************************************************************************)
LvdVersions == {Ver(major, 0, 0, pre) : major \in 0..MaxMajor, pre \in 0..1}

\* the sets of platforms a listed version may have artifacts for
LvdSlotSets ==
    {{}, {"windows"}, {"mac-intel"}, {"linux", "mac"}, Platforms}

\* the artifact of version v for a platform
ArtifactFor(v, plat) ==
    Download(plat \o "-" \o ToString(v.major) \o "-" \o ToString(v.pre),
             ZipFile, None)

SlotOf(v, on, plat) == IF plat \in on THEN Some(ArtifactFor(v, plat)) ELSE None

ProductVersionOf(v, on) ==
    [version |-> v,
     downloads |-> Slots(SlotOf(v, on, "windows"), SlotOf(v, on, "mac"),
                         SlotOf(v, on, "mac-intel"), SlotOf(v, on, "linux"))]

LvdProductVersions == {ProductVersionOf(v, on) : v \in LvdVersions, on \in LvdSlotSets}

LvdProducts ==
    {[id |-> "p1", name |-> "", description |-> "", install_directory |-> "angel",
      removals |-> <<>>, versions |-> l] :
        l \in UNION {[1..n -> LvdProductVersions] : n \in 0..MaxListed}}

InitLVD ==
    /\ platform \in Platforms
    /\ remote = [products |-> <<>>]
    /\ manifest = None
    /\ mem = EmptyInstall
    /\ disk = NoFile
    /\ fs = {}
    /\ mfPoisoned = FALSE
    /\ instPoisoned = FALSE
    /\ inst = InstIdle
    /\ load = LoadIdle
    /\ ret = NoReturn
    /\ calls = 0
    /\ tar = TarIdle
    /\ sav = SavIdle
    /\ lv \in {[prod |-> prod, allow_prerelease |-> a, result |-> None] :
                 prod \in LvdProducts, a \in BOOLEAN}

LvdCall ==
    /\ lv.result = None
    /\ lv' = [lv EXCEPT !.result =
                Some(latest_version_data(lv.prod, lv.allow_prerelease, platform))]
    /\ UNCHANGED <<platform, remote, manifest, mem, disk, fs, mfPoisoned,
                   instPoisoned, inst, load, ret, calls, tar, sav>>

NextLVD == LvdCall

SpecLVD == InitLVD /\ [][NextLVD]_vars

(***************************************************************************)
(* extract_tar_gz on its own: every archive of at most MaxEntries entries  *)
(* out of a few, on every platform.                                        *)
(***************************************************************************)
TarEntries ==
    { TarEntry(<<"a">>, TRUE), TarEntry(<<"a", "b">>, TRUE),
      TarEntry(<<"a", "x">>, FALSE), TarEntry(<<"a", "b", "x">>, FALSE),
      TarEntry(<<"b">>, TRUE), TarEntry(<<"b", "y">>, FALSE),
      TarEntry(<<"..", "y">>, FALSE), TarEntry(<<"/", "y">>, FALSE) }

TarArchives == UNION {[1..n -> TarEntries] : n \in 0..MaxEntries}

InitTar ==
    /\ platform \in Platforms
    /\ remote = [products |-> <<>>]
    /\ manifest = None
    /\ mem = EmptyInstall
    /\ disk = NoFile
    /\ fs = {}
    /\ mfPoisoned = FALSE
    /\ instPoisoned = FALSE
    /\ inst = InstIdle
    /\ load = LoadIdle
    /\ ret = NoReturn
    /\ calls = 0
    /\ lv = LvIdle
    /\ sav = SavIdle
    /\ tar \in {[pc |-> "open", archive |-> a, topmost_dir |-> None, out |-> {}] :
                  a \in TarArchives}

\* the first pass over the entries (gzip.rs 11-43)
TarFirstPass ==
    /\ tar.pc = "open"
    /\ tar' = [tar EXCEPT !.pc = "scanned",
                          !.topmost_dir = FirstPass(tar.archive, platform)]
    /\ UNCHANGED <<platform, remote, manifest, mem, disk, fs, mfPoisoned,
                   instPoisoned, inst, load, ret, calls, lv, sav>>

\* the second pass over the entries (gzip.rs 46-77)
TarSecondPass ==
    /\ tar.pc = "scanned"
    /\ tar' = [tar EXCEPT !.pc = "done",
                          !.out = SecondPass(tar.archive, tar.topmost_dir)]
    /\ UNCHANGED <<platform, remote, manifest, mem, disk, fs, mfPoisoned,
                   instPoisoned, inst, load, ret, calls, lv, sav>>

NextTar == TarFirstPass \/ TarSecondPass

SpecTar == InitTar /\ [][NextTar]_vars

(***************************************************************************)
(* The Install store and its file on their own: load_manifest on every     *)
(* state file of a few, Install::save taken step by step, and a stop of    *)
(* the process in the middle of it.                                        *)
(***************************************************************************)
\* a record of an installed product with a launch path
AngelInstalled ==
    [name |-> "Angel", description |-> "Suite",
     version |-> Some(<<"1", ".", "0", ".", "0">>),
     execute_working_directory |-> Some(<<"angelsuite", "angel">>),
     main_executable |-> Some(<<"angelsuite", "angel", "app">>),
     use_prerelease |-> TRUE]

\* the stores a command may hand to save
SavStores ==
    { EmptyInstall,
      "p1" :> DefaultProduct,
      "p1" :> AngelInstalled,
      ("p1" :> AngelInstalled) @@ ("p2" :> [DefaultProduct EXCEPT !.use_prerelease = TRUE]) }

JsonString(x) == [t |-> "string", s |-> x]

JsonBool(x) == [t |-> "bool", b |-> x]

JsonNull == [t |-> "null"]

\* documents written by hand or by another version of the program
HandWritten ==
    { [products |-> "p1" :> [use_prerelease |-> JsonBool(TRUE)]],
      [products |-> "p1" :> [name |-> JsonString("Angel"),
                             version |-> JsonString(<<"1", ".", "0", ".", "0">>),
                             use_prerelease |-> JsonBool(FALSE)]],
      [products |-> "p1" :> [name |-> JsonString("Angel"),
                             description |-> JsonString("Suite"),
                             version |-> JsonNull,
                             execute_working_directory |-> JsonNull,
                             main_executable |-> JsonNull]],
      [products |-> "p1" :> [name |-> JsonNull,
                             use_prerelease |-> JsonBool(FALSE)]],
      [installed |-> JsonNull] }

\* the state files the program may find when it starts
StoreFiles ==
    {NoFile, CutFile}
        \cup {FileOf(Serialize(install)) : install \in SavStores}
        \cup {FileOf(json) : json \in HandWritten}

InitStore ==
    /\ platform = "linux"
    /\ remote \in Catalogs
    /\ manifest = None
    /\ mem = EmptyInstall
    /\ disk \in StoreFiles
    /\ fs = {}
    /\ mfPoisoned = FALSE
    /\ instPoisoned = FALSE
    /\ inst = InstIdle
    /\ load = LoadIdle
    /\ ret = NoReturn
    /\ calls = 0
    /\ lv = LvIdle
    /\ tar = TarIdle
    /\ sav = SavIdle

\* a command calls save on a store (install.rs 13)
SaveCall(install) ==
    /\ sav.pc = "idle"
    /\ load.pc = "idle"
    /\ sav' = [pc |-> "create", install |-> install, previous |-> disk]
    /\ UNCHANGED <<platform, remote, manifest, mem, disk, fs, mfPoisoned,
                   instPoisoned, inst, load, ret, calls, lv, tar>>

\* File::create: the file is created or truncated (install.rs 15)
SaveCreate ==
    /\ sav.pc = "create"
    /\ disk' = CutFile
    /\ sav' = [sav EXCEPT !.pc = "write"]
    /\ UNCHANGED <<platform, remote, manifest, mem, fs, mfPoisoned,
                   instPoisoned, inst, load, ret, calls, lv, tar>>

\* serde_json::to_writer and the flush of the BufWriter (install.rs 14-18)
SaveWrite ==
    /\ sav.pc = "write"
    /\ disk' = FileOf(Serialize(sav.install))
    /\ sav' = [sav EXCEPT !.pc = "done"]
    /\ UNCHANGED <<platform, remote, manifest, mem, fs, mfPoisoned,
                   instPoisoned, inst, load, ret, calls, lv, tar>>

\* the process stops while save is running
SaveStop ==
    /\ sav.pc \in {"create", "write"}
    /\ sav' = [sav EXCEPT !.pc = "stopped"]
    /\ UNCHANGED <<platform, remote, manifest, mem, disk, fs, mfPoisoned,
                   instPoisoned, inst, load, ret, calls, lv, tar>>

\* load_manifest, of this process or of the next one
StoreLoadRead == sav.pc \in {"idle", "done", "stopped"} /\ LoadRead

NextStore ==
    \/ \E install \in SavStores : SaveCall(install)
    \/ SaveCreate
    \/ SaveWrite
    \/ SaveStop
    \/ StoreLoadRead
    \/ LoadFetch

SpecStore == InitStore /\ [][NextStore]_vars

(***************************************************************************)
(* Properties                                                              *)
(***************************************************************************)
\* the step in which install_app has run its strategy and saved its store
InstallSaved == inst.pc = "strategy" /\ inst'.pc = "publish"

\* the step in which install_app returns Ok(())
InstallReturnedOk == ret'.cmd = "install_app" /\ ret'.res = "ok"

\* the step in which install_app(p) is invoked
InstallInvoked(p) ==
    /\ calls' = calls + 1
    /\ inst.pc = "idle"
    /\ \/ ret'.cmd = "install_app" /\ ret'.id = p
       \/ inst'.pc = "get" /\ inst'.id = p

\* the state file holds exactly the store
FileHolds(file, install) ==
    /\ file.kind = "json"
    /\ Parses(file.body)
    /\ Deserialize(file.body) = install

RecordMatchesManifest(rec, prod) ==
    /\ rec.name = prod.name
    /\ rec.description = prod.description
    /\ rec.version = Some(VersionToString(latest_version(prod, rec.use_prerelease)))

\* C1: when install_app(id) succeeds, the record of id carries the manifest's
\* name and description and the version latest_version resolves under the stored
\* use_prerelease; the store with this record is what was written to the state
\* file and what is put in the shared in-memory store.
C1_InstallRecordsAndPersists ==
    [][ /\ InstallSaved =>
             /\ FileHolds(disk', inst'.install)
             /\ RecordMatchesManifest(inst'.install[inst.id],
                                      FindProduct(Unwrap(manifest), inst.id))
        /\ InstallReturnedOk =>
             /\ mem' = inst.install
             /\ ret'.id \in DOMAIN mem'
             /\ RecordMatchesManifest(mem'[ret'.id],
                                      FindProduct(Unwrap(manifest), ret'.id)) ]_vars

C1_Witness ==
    /\ ret.cmd = "install_app"
    /\ ret.res = "ok"
    /\ mem[ret.id].name = "Angel"
    /\ mem[ret.id].version = Some(<<"1", ".", "1", ".", "0", "-", "1">>)
    /\ FileHolds(disk, mem)

\* no listed version equal to the resolved one has an artifact in the slot of
\* the running platform
NoArtifact(prod, allow_prerelease, plat) ==
    \A i \in 1..Len(prod.versions) :
        prod.versions[i].version = latest_version(prod, allow_prerelease)
            => PlatformSlot(prod.versions[i].downloads, plat) = None

StoredPrerelease(install, p) ==
    IF p \in DOMAIN install THEN install[p].use_prerelease ELSE FALSE

\* C2: when install_app(id) finds no artifact for the running platform at the
\* resolved version it returns "Download not available for this operating
\* system", and neither the in-memory store nor the state file changes.
C2_NoArtifactNoStateChange ==
    [][ \A p \in Ids :
          ( /\ InstallInvoked(p)
            /\ manifest # None
            /\ Matching(Unwrap(manifest), p) # {}
            /\ NoArtifact(FindProduct(Unwrap(manifest), p),
                          StoredPrerelease(mem, p), platform) )
          => /\ ret' = Returned("install_app", p, "err_no_download")
             /\ mem' = mem
             /\ disk' = disk ]_vars

C2_Witness ==
    /\ ret.cmd = "install_app"
    /\ ret.res = "err_no_download"
    /\ ret.id \in DOMAIN mem
    /\ IsSome(mem[ret.id].version)

\* C3: a run of install_app that fails because no artifact resolves deletes no
\* file of a removal rule and does not create the install directory.
C3_ResolutionBeforeRemoval ==
    [][ (ret'.cmd = "install_app" /\ ret'.res = "err_no_download")
          => fs' = fs ]_vars

\* C4: the changes other commands made to the store while install_app was
\* suspended survive its completion: its save and its final assignment change
\* no other product's record and not the use_prerelease of its own.
C4_NoLostUpdate ==
    [][ /\ InstallReturnedOk =>
             \A q \in DOMAIN mem :
                 /\ q \in DOMAIN mem'
                 /\ mem'[q].use_prerelease = mem[q].use_prerelease
                 /\ q # ret'.id => mem'[q] = mem[q]
        /\ (InstallSaved /\ disk.kind = "json" /\ Parses(disk.body)) =>
             \A q \in DOMAIN Deserialize(disk.body) :
                 /\ q \in DOMAIN Deserialize(disk'.body)
                 /\ Deserialize(disk'.body)[q].use_prerelease
                        = Deserialize(disk.body)[q].use_prerelease
                 /\ q # inst.id =>
                        Deserialize(disk'.body)[q] = Deserialize(disk.body)[q] ]_vars

\* C5: when the strategy fails, install_app returns an error and leaves the
\* store unchanged in memory and on disk; it never goes on to save after a
\* strategy that left one of its paths unwritten.
C5_ExtractionFailureKeepsState ==
    [][ /\ (ret'.cmd = "install_app" /\ ret'.res = "err_extract")
             => mem' = mem /\ disk' = disk
        /\ ( /\ inst.pc = "strategy"
             /\ inst' # inst
             /\ \E k \in 1..Len(StrategyWrites(Unwrap(inst.prod), Unwrap(inst.download))) :
                  StrategyWrites(Unwrap(inst.prod), Unwrap(inst.download))[k] \notin fs' )
             => /\ ret' = Returned("install_app", inst.id, "err_extract")
                /\ inst'.pc = "idle" ]_vars

C5_Witness ==
    /\ ret.cmd = "install_app"
    /\ ret.res = "err_extract"
    /\ ret.id \in DOMAIN mem
    /\ IsSome(mem[ret.id].version)
    /\ FileHolds(disk, mem)

\* C6: when the download fails (the request, or the read of a chunk),
\* install_app returns an error and the store is unchanged in memory and on disk.
C6_DownloadFailureKeepsState ==
    [][ ( /\ inst.pc \in {"get", "chunk"}
          /\ inst'.pc = "idle" )
          => /\ ret'.cmd = "install_app"
             /\ ret'.res \in {"err_get", "err_chunk"}
             /\ mem' = mem
             /\ disk' = disk ]_vars

C6_Witness ==
    /\ ret.cmd = "install_app"
    /\ ret.res = "err_chunk"
    /\ ret.id \notin DOMAIN mem

\* C7: remove_app(id) of an installed product leaves its record with version,
\* main_executable and execute_working_directory absent and with the name,
\* description and use_prerelease it had, and the store is persisted.
C7_RemoveClearsAndKeeps ==
    [][ \A p \in Ids :
          ( /\ ret' = Returned("remove_app", p, "ok")
            /\ p \in DOMAIN mem
            /\ IsSome(mem[p].version) )
          => /\ p \in DOMAIN mem'
             /\ mem'[p].version = None
             /\ mem'[p].main_executable = None
             /\ mem'[p].execute_working_directory = None
             /\ mem'[p].name = mem[p].name
             /\ mem'[p].description = mem[p].description
             /\ mem'[p].use_prerelease = mem[p].use_prerelease
             /\ FileHolds(disk', mem') ]_vars

C7_Witness ==
    /\ ret = Returned("remove_app", "p1", "ok")
    /\ mem["p1"].version = None
    /\ mem["p1"].name = "Angel"
    /\ mem["p1"].use_prerelease

\* C8: install_app and remove_app with an id the manifest does not list, and
\* start_app with an id the store does not hold, return a not-found error
\* without panicking and leave the store as it was.
C8_UnknownIdNotFound ==
    [][ \A p \in Ids :
          ( /\ calls' = calls + 1
            /\ ret'.id = p
            /\ \/ /\ ret'.cmd \in {"install_app", "remove_app"}
                  /\ manifest # None
                  /\ Matching(Unwrap(manifest), p) = {}
               \/ /\ ret'.cmd = "start_app"
                  /\ p \notin DOMAIN mem )
          => /\ ret'.res = "err_not_found"
             /\ mem' = mem
             /\ disk' = disk ]_vars

\* C9: a set_prerelease(id, b) that returns has set use_prerelease of id to b
\* (on a default record if id was unknown), has persisted the store, and has
\* changed no other field of id and no record of any other product.
C9_SetPrereleaseFrame ==
    [][ \A p \in Ids :
          (ret'.cmd = "set_prerelease" /\ ret'.id = p /\ ret'.res = "ok")
          => /\ DOMAIN mem' = DOMAIN mem \cup {p}
             /\ mem'[p] = [(IF p \in DOMAIN mem THEN mem[p] ELSE DefaultProduct)
                              EXCEPT !.use_prerelease = ret'.arg]
             /\ \A q \in DOMAIN mem \ {p} : mem'[q] = mem[q]
             /\ FileHolds(disk', mem')
             /\ fs' = fs
             /\ manifest' = manifest ]_vars

C9_Witness ==
    /\ ret.cmd = "set_prerelease"
    /\ ret.res = "ok"
    /\ ret.arg
    /\ IsSome(mem[ret.id].version)
    /\ IsSome(mem[ret.id].main_executable)
    /\ Cardinality(DOMAIN mem) = 2

\* the versions latest_version may choose from
LvCandidates ==
    {lv.versions[i] : i \in {j \in 1..Len(lv.versions) :
                               lv.allow_prerelease \/ lv.versions[j].pre = 0}}

\* C10: whenever the candidate set is not empty, latest_version returns a member
\* of it, and none of its members is greater.
C10_LatestIsMaximumCandidate ==
    (IsSome(lv.result) /\ LvCandidates # {})
        => /\ Unwrap(lv.result) \in LvCandidates
           /\ \A c \in LvCandidates : ~VerLess(Unwrap(lv.result), c)

\* C11: latest_version(product, false) never returns a version with a non-empty
\* pre-release component, whatever the version list.
C11_ReleaseChannelNeverPrerelease ==
    (IsSome(lv.result) /\ ~lv.allow_prerelease) => Unwrap(lv.result).pre = 0

\* a list with a release between two pre-releases
C11_Witness ==
    /\ IsSome(lv.result)
    /\ ~lv.allow_prerelease
    /\ lv.versions = <<Ver(1, 0, 0, 2), Ver(1, 0, 0, 0), Ver(1, 0, 0, 1)>>
    /\ Unwrap(lv.result) = Ver(1, 0, 0, 0)

\* C12: for a product with an empty version list latest_version returns 0.0.0,
\* with pre-releases allowed and without.
C12_EmptyListGivesZero ==
    (IsSome(lv.result) /\ lv.versions = <<>>)
        => Unwrap(lv.result) = Ver(0, 0, 0, 0)

C12_Witness ==
    /\ lv.versions = <<>>
    /\ lv.allow_prerelease
    /\ lv.result = Some(Ver(0, 0, 0, 0))

\* the versions a product lists, and the releases among them
Listed(prod) == {prod.versions[i].version : i \in 1..Len(prod.versions)}

Releases(prod) == {v \in Listed(prod) : v.pre = 0}

\* the greatest of a non-empty set of versions in semver order
Greatest(S) == CHOOSE v \in S : \A w \in S : ~VerLess(v, w)

\* the product's highest version is a pre-release and it lists a release
HighestIsPrerelease(prod) ==
    /\ Releases(prod) # {}
    /\ Greatest(Listed(prod)).pre # 0

\* C13: for a product whose highest version is a pre-release above a release,
\* install_app resolves the highest release when the stored use_prerelease is
\* false and the pre-release when it is true; the version is fixed when the
\* install starts and is the one the record gets.
C13_ResolutionFollowsPreference ==
    [][ /\ \A p \in Ids :
              (InstallInvoked(p) /\ inst'.pc = "get")
              => LET prod == FindProduct(Unwrap(manifest), p)
                 IN  HighestIsPrerelease(prod)
                     => inst'.version = IF StoredPrerelease(mem, p)
                                        THEN Greatest(Listed(prod))
                                        ELSE Greatest(Releases(prod))
        /\ (inst.pc \in {"get", "chunk", "strategy"} /\ inst'.pc # "idle")
              => inst'.version = inst.version
        /\ InstallSaved
              => inst'.install[inst.id].version
                     = Some(VersionToString(inst.version)) ]_vars

\* 1.0.0 was installed with use_prerelease false; after the toggle a new install
\* has resolved 1.1.0-1
C13_Witness ==
    /\ inst.pc = "get"
    /\ inst.version = Ver(1, 1, 0, 1)
    /\ inst.id \in DOMAIN mem
    /\ mem[inst.id].version = Some(<<"1", ".", "0", ".", "0">>)
    /\ mem[inst.id].use_prerelease

\* the entries of the product that list the version latest_version resolves
LvdHits ==
    {i \in 1..Len(lv.prod.versions) :
        lv.prod.versions[i].version = latest_version(lv.prod, lv.allow_prerelease)}

LvdFirstHit == CHOOSE i \in LvdHits : \A j \in LvdHits : i <= j

\* the slot of the running platform in a ProductDownloads
RunningSlot(downloads) ==
    IF platform = "windows" THEN downloads.windows
    ELSE IF platform = "mac-intel" THEN downloads.mac_intel
    ELSE IF platform = "mac" THEN downloads.mac
    ELSE downloads.linux

\* C14: latest_version_data returns the running platform's slot of the (first)
\* listed version equal to latest_version; when no listed version equals it the
\* result is none, and when that slot is absent the result is none whatever
\* other slots of that version or slots of other versions hold.
C14_ArtifactOfResolvedVersion ==
    IsSome(lv.result)
        => IF LvdHits = {}
           THEN Unwrap(lv.result) = None
           ELSE Unwrap(lv.result)
                    = RunningSlot(lv.prod.versions[LvdFirstHit].downloads)

\* on Linux, 1.0.0 lists an artifact for Windows only while the older 1.0.0-1
\* lists one for Linux: the result is none
C14_Witness ==
    /\ platform = "linux"
    /\ lv.allow_prerelease
    /\ lv.prod.versions = <<ProductVersionOf(Ver(1, 0, 0, 1), {"linux", "mac"}),
                            ProductVersionOf(Ver(1, 0, 0, 0), {"windows"})>>
    /\ lv.result = Some(None)

\* a rule names no platforms, or names the running one
OnRunningPlatform(removal) ==
    removal.on = None \/ platform \in Unwrap(removal.on)

\* the rule is due on an upgrade from the recorded version string
RuleIsDue(removal, recorded) ==
    /\ ReqMatches(removal.on_upgrade_from, VersionParse(recorded))
    /\ OnRunningPlatform(removal)

\* the paths a rule lists for a product
RulePaths(prod, removal) ==
    {Append(InstallDirectory(prod), removal.files[k]) : k \in 1..Len(removal.files)}

\* the paths listed by the rules that are due
DuePaths(prod, recorded) ==
    UNION {RulePaths(prod, prod.removals[i]) :
             i \in {j \in 1..Len(prod.removals) : RuleIsDue(prod.removals[j], recorded)}}

\* install_app(p) is invoked for a product of the manifest
InstallOfListed(p) ==
    /\ InstallInvoked(p)
    /\ manifest # None
    /\ Matching(Unwrap(manifest), p) # {}

\* C15: when install_app runs for an installed product, the files of a removal
\* rule are deleted if its on_upgrade_from matches the recorded version and its
\* `on` is absent or names the running platform (unless the deletion itself
\* fails), and no file that only rules not due list is deleted; "<2.0.0"
\* matches 1.5.0 and not 2.1.0.
C15_RemovalIffRuleDue ==
    [][ /\ \A p \in Ids :
              ( /\ InstallOfListed(p)
                /\ p \in DOMAIN mem
                /\ IsSome(mem[p].version) )
              => LET prod == FindProduct(Unwrap(manifest), p)
                     due == DuePaths(prod, Unwrap(mem[p].version))
                 IN  /\ \A path \in fs \ due : path \in fs'
                     /\ inst'.pc = "get"
                          => \A path \in due :
                                 path \notin fs' \/ path \in inst'.undeleted
        /\ ReqMatches(<<[op |-> "<", v |-> Ver(2, 0, 0, 0)]>>, Ver(1, 5, 0, 0))
        /\ ~ReqMatches(<<[op |-> "<", v |-> Ver(2, 0, 0, 0)]>>, Ver(2, 1, 0, 0)) ]_vars

\* on Linux, on a reinstall over 1.0.0, the rule "<2.0.0" has deleted "old" and
\* the rule for Windows has left "app"
C15_Witness ==
    /\ inst.pc = "get"
    /\ platform = "linux"
    /\ inst.install[inst.id].version = Some(<<"1", ".", "0", ".", "0">>)
    /\ inst.undeleted = {}
    /\ <<"angelsuite", "angel", "old">> \notin fs
    /\ <<"angelsuite", "angel", "app">> \in fs

\* every path a removal rule of the product lists
AllRulePaths(prod) ==
    UNION {RulePaths(prod, prod.removals[i]) : i \in 1..Len(prod.removals)}

\* C16: install_app of a product whose recorded version is absent deletes no
\* file a removal rule lists, whatever the rules' predicates.
C16_NoRemovalUnlessInstalled ==
    [][ \A p \in Ids :
          ( /\ InstallOfListed(p)
            /\ p \in DOMAIN mem => mem[p].version = None )
          => \A path \in AllRulePaths(FindProduct(Unwrap(manifest), p)) \cap fs :
                 path \in fs' ]_vars

\* an install has started for a product that is not installed while "old",
\* which the rule "<2.0.0" lists, is on disk
C16_Witness ==
    /\ inst.pc = "get"
    /\ inst.install[inst.id].version = None
    /\ inst.undeleted = {}
    /\ <<"angelsuite", "angel", "old">> \in fs

\* C17: the removal pass is best-effort: whatever it finds missing or fails to
\* delete, install_app of a listed product goes on to the download unless no
\* artifact resolves, and a run that has saved its store returns Ok.
C17_RemovalBestEffort ==
    [][ /\ \A p \in Ids :
              InstallOfListed(p)
              => LET prod == FindProduct(Unwrap(manifest), p)
                 IN  IF NoArtifact(prod, StoredPrerelease(mem, p), platform)
                     THEN ret' = Returned("install_app", p, "err_no_download")
                     ELSE inst'.pc = "get" /\ inst'.id = p /\ ret' = NoReturn
        /\ (inst.pc = "publish" /\ inst'.pc = "idle" /\ ~instPoisoned)
              => ret' = Returned("install_app", inst.id, "ok") ]_vars

\* the strategy has succeeded and the store is saved in a run whose removal pass
\* failed to delete a listed file
C17_Witness ==
    /\ inst.pc = "publish"
    /\ inst.undeleted # {}
    /\ ~instPoisoned
    /\ FileHolds(disk, inst.install)

\* C18: remove_app(id) of a product the manifest lists returns Ok, leaves the
\* record of id with version, main_executable and execute_working_directory
\* absent and persists the store, whether the install directory is missing,
\* deleted, or still there because its deletion failed.
C18_RemoveIgnoresDirectory ==
    [][ \A p \in Ids :
          ( /\ calls' = calls + 1
            /\ ret'.cmd = "remove_app"
            /\ ret'.id = p
            /\ manifest # None
            /\ Matching(Unwrap(manifest), p) # {} )
          => /\ ret'.res = "ok"
             /\ p \in DOMAIN mem'
             /\ mem'[p].version = None
             /\ mem'[p].main_executable = None
             /\ mem'[p].execute_working_directory = None
             /\ FileHolds(disk', mem') ]_vars

\* remove_app has returned Ok although the install directory and a file in it
\* are still on disk
C18_Witness ==
    /\ ret = Returned("remove_app", "p1", "ok")
    /\ <<"angelsuite", "angel">> \in fs
    /\ <<"angelsuite", "angel", "app">> \in fs
    /\ mem["p1"].version = None
    /\ mem["p1"].name = "Angel 2"

\* every entry of the archive lies under the top-level directory root
SingleRooted(archive, root) ==
    /\ Len(archive) > 0
    /\ \A i \in 1..Len(archive) : archive[i].path[1] = root

\* C19: an archive whose entries all lie under one top-level directory is
\* extracted with that directory stripped from every entry, with or without a
\* directory entry for it and in whatever order the entries come.
C19_SingleRootStripped ==
    (tar.pc = "done" /\ \E root \in {"a", "b"} : SingleRooted(tar.archive, root))
        => tar.out = UNION {Unpacked(Tail(tar.archive[i].path)) :
                              i \in 1..Len(tar.archive)}

\* two entries of the archive lie under different top-level names
TwoRoots(archive) ==
    \E i, j \in 1..Len(archive) : archive[i].path[1] # archive[j].path[1]

\* C20: an archive with two distinct top-level roots is extracted with every
\* entry at its verbatim path; no prefix is stripped.
C20_TwoRootsVerbatim ==
    (tar.pc = "done" /\ TwoRoots(tar.archive))
        => tar.out = UNION {Unpacked(tar.archive[i].path) :
                              i \in 1..Len(tar.archive)}

\* a/, a/x and b/y extracted on Linux
C20_Witness ==
    /\ tar.pc = "done"
    /\ platform = "linux"
    /\ tar.archive = <<TarEntry(<<"a">>, TRUE), TarEntry(<<"a", "x">>, FALSE),
                       TarEntry(<<"b", "y">>, FALSE)>>
    /\ tar.out = {<<"a">>, <<"a", "x">>, <<"b">>, <<"b", "y">>}

\* the entry's path leaves the target: it is absolute or climbs with ".."
EscapesTarget(entry) ==
    ~IsPrefix(output_dir, WrittenAt(entry.path))

\* C21: extract_tar_gz writes nothing outside output_dir, and an archive with
\* an entry whose output path escapes output_dir does not extract to the end.
C21_NeverWritesOutsideTarget ==
    /\ \A rel \in tar.out : IsPrefix(output_dir, WrittenAt(rel))
    /\ tar.pc = "done"
          => \A i \in 1..Len(tar.archive) : ~EscapesTarget(tar.archive[i])

\* C22: if the process stops during save, the state file holds the complete
\* content it had before the call or the complete new content, and a later
\* load does not find a file it cannot parse.
C22_SaveCrashSafe ==
    (sav.pc = "stopped" /\ sav.previous.kind = "json" /\ Parses(sav.previous.body))
        => /\ disk = sav.previous \/ FileHolds(disk, sav.install)
           /\ ret.cmd = "load_manifest" => ret.res # "panic"

\* the step in which load_manifest runs up to its first await
LoadReadStep ==
    /\ load.pc = "idle"
    /\ calls' = calls + 1
    /\ load'.pc = "fetch" \/ ret'.cmd = "load_manifest"

\* the file is no JSON document, or a document without the products object
StructurallyInvalid(file) ==
    \/ file.kind = "cut"
    \/ file.kind = "json" /\ "products" \notin DOMAIN file.body

\* C23: with no state file, load_manifest writes the empty store to a new file
\* and goes on with the empty store read back from it; with a state file that
\* is structurally invalid it fails, leaves the file as it is and puts no store
\* in memory.
C23_LoadCreatesOrFails ==
    [][ /\ (LoadReadStep /\ disk.kind = "absent")
              => /\ FileHolds(disk', EmptyInstall)
                 /\ load'.pc = "fetch"
                 /\ load'.install_data = EmptyInstall
                 /\ ret' = NoReturn
        /\ (LoadReadStep /\ StructurallyInvalid(disk))
              => /\ ret' = Returned("load_manifest", "", "panic")
                 /\ disk' = disk
                 /\ mem' = mem
                 /\ load'.pc = "idle"
        /\ (load.pc = "fetch" /\ ret'.res \in {"ok", "offline"})
              => mem' = load.install_data ]_vars

\* load_manifest has failed on a document without products, which is still there
C23_Witness ==
    /\ ret = Returned("load_manifest", "", "panic")
    /\ disk = FileOf([installed |-> JsonNull])
    /\ mem = EmptyInstall
    /\ load.pc = "idle"

\* the ids of the records in the state file, none when it cannot be read
FileKeys(file) ==
    IF file.kind = "json" /\ Parses(file.body) THEN DOMAIN Deserialize(file.body)
    ELSE {}

\* C24: no step removes a record: every id that is a key of the store stays a
\* key of it, in memory and in the state file.
C24_RecordsNeverDeleted ==
    [][ /\ DOMAIN mem \subseteq DOMAIN mem'
        /\ FileKeys(disk) \subseteq FileKeys(disk') ]_vars

\* C25: get_mut_product_or_default(id) inserts a record with version,
\* main_executable and execute_working_directory absent and use_prerelease
\* false when id is no key, leaves the record of id as it is otherwise, and
\* changes no other record; seen on the clone install_app calls it on.
C25_GetOrCreateFrame ==
    [][ \A p \in Ids :
          (InstallInvoked(p) /\ inst'.pc = "get")
          => /\ DOMAIN inst'.install = DOMAIN mem \cup {p}
             /\ p \in DOMAIN mem => inst'.install[p] = mem[p]
             /\ p \notin DOMAIN mem
                   => /\ inst'.install[p].version = None
                      /\ inst'.install[p].main_executable = None
                      /\ inst'.install[p].execute_working_directory = None
                      /\ inst'.install[p].use_prerelease = FALSE
             /\ \A q \in DOMAIN mem \ {p} : inst'.install[q] = mem[q] ]_vars

\* the clone has got a default record for p1 next to the record of p2
C25_Witness ==
    /\ inst.pc = "get"
    /\ inst.id = "p1"
    /\ "p1" \notin DOMAIN mem
    /\ DOMAIN inst.install = {"p1", "p2"}
    /\ inst.install["p1"].version = None
    /\ inst.install["p2"].use_prerelease

\* a field of a persisted record holds a value of the type the field has
FieldWellTyped(obj, f) ==
    IF f \in {"name", "description"} THEN obj[f].t = "string"
    ELSE IF f = "use_prerelease" THEN obj[f].t = "bool"
    ELSE obj[f].t \in {"string", "null"}

\* a document with a products object whose records may lack fields, but hold
\* no field of the wrong type
OnlyLacksFields(file) ==
    /\ file.kind = "json"
    /\ "products" \in DOMAIN file.body
    /\ \A id \in DOMAIN file.body.products :
           \A f \in DOMAIN file.body.products[id] :
               FieldWellTyped(file.body.products[id], f)

\* C26: a state file whose records lack some of name, description, version,
\* main_executable, execute_working_directory and use_prerelease is loaded,
\* with a record for every id of the file.
C26_AbsentFieldsDefaulted ==
    [][ (LoadReadStep /\ OnlyLacksFields(disk))
          => /\ load'.pc = "fetch"
             /\ DOMAIN load'.install_data = DOMAIN disk.body.products ]_vars

\* the document save writes for a store is read back as that store
RoundTrips(install) ==
    /\ Parses(Serialize(install))
    /\ Deserialize(Serialize(install)) = install

\* C27: load on a missing state file yields an empty store whose saved file
\* loads as an empty store again; the store the commands share is read back
\* unchanged from the document save writes for it, and the state file is what
\* save writes for the store read from it.
C27_SaveLoadRoundTrip ==
    /\ [](/\ RoundTrips(mem)
          /\ disk.kind = "json"
                => /\ Parses(disk.body)
                   /\ save(Deserialize(disk.body)) = disk)
    /\ [][ (LoadReadStep /\ disk.kind = "absent")
              => /\ load'.install_data = EmptyInstall
                 /\ FileHolds(save(load'.install_data), EmptyInstall) ]_vars

\* load_manifest has read back the store of an installed product with a launch
\* path
C27_Witness ==
    /\ ret.cmd = "load_manifest"
    /\ ret.res = "ok"
    /\ "p1" \in DOMAIN mem
    /\ IsSome(mem["p1"].version)
    /\ IsSome(mem["p1"].main_executable)
    /\ mem["p1"].use_prerelease
    /\ FileHolds(disk, mem)

\* load_manifest returns the list it built while working offline
OfflineReturn ==
    /\ load.pc = "fetch"
    /\ ret'.cmd = "load_manifest"
    /\ ret'.res = "offline"

SentinelString == <<"0", ".", "0", ".", "0">>

\* C29: the list load_manifest returns from offline mode has exactly one
\* entry for each stored record with a version and none for a record without
\* one; every entry carries 0.0.0 as both remote versions, and has_os_match,
\* has_os_match_prerelease and can_start all say whether the record has a
\* main executable.
C29_OfflineResult ==
    [][ OfflineReturn =>
          /\ \A prod_id \in DOMAIN load.install_data :
                Cardinality({i \in DOMAIN ret'.out : ret'.out[i].id = prod_id})
                    = IF load.install_data[prod_id].version # <<>> THEN 1 ELSE 0
          /\ \A i \in DOMAIN ret'.out :
                LET entry == ret'.out[i]
                IN  /\ entry.id \in DOMAIN load.install_data
                    /\ entry.remote_version = SentinelString
                    /\ entry.remote_version_prerelease = SentinelString
                    /\ LET recorded ==
                              load.install_data[entry.id].main_executable # <<>>
                       IN  /\ entry.has_os_match = recorded
                           /\ entry.has_os_match_prerelease = recorded
                           /\ entry.can_start = recorded ]_vars

\* offline, the store holds an installed product that can be started and a
\* record without a version: one entry is returned
C29_Witness ==
    /\ ret.cmd = "load_manifest"
    /\ ret.res = "offline"
    /\ Len(ret.out) = 1
    /\ ret.out[1].can_start
    /\ ret.out[1].id = "p1"
    /\ "p2" \in DOMAIN mem
    /\ mem["p2"].version = <<>>

\* install_app writes the installed version into its record and saves the store
RecordsVersion ==
    /\ inst.pc = "strategy"
    /\ inst'.pc = "publish"

\* the Item component never offers Install or Update for an entry whose
\* resolved remote version is 0.0.0, and says the product is not available when
\* it is not installed
ItemHonoursSentinel(props) ==
    \A allow_prereleases \in BOOLEAN :
        ItemRemoteVersion(props, allow_prereleases) = SentinelString
            => /\ hide_install_upgrade(props, allow_prereleases)
               /\ props.local_version = <<>>
                     => state_str(props, allow_prereleases)
                            = "Not available for your system"

\* C28: 0.0.0 means "no version available" to every caller: no run of
\* install_app records "0.0.0" as the installed version, and for no entry
\* load_manifest returns with a resolved remote version of 0.0.0 does the UI
\* offer Install or Update (a product not installed is shown as not available).
C28_SentinelMeansUnavailable ==
    [][ /\ RecordsVersion
             => inst'.install[inst.id].version # Some(SentinelString)
        /\ ret'.cmd = "load_manifest"
             => \A i \in DOMAIN ret'.out : ItemHonoursSentinel(ret'.out[i]) ]_vars

\* a step of install_app between the request for the artifact and the end of
\* the chunk loop
DownloadStep ==
    /\ inst.pc \in {"get", "chunk"}
    /\ inst' # inst

\* C30: in install_app the strategy starts only once the chunk loop has ended
\* and every chunk received is in the temporary file; nothing is extracted or
\* copied during the download, and a chunk error ends install_app with nothing
\* extracted.
C30_DownloadBeforeStrategy ==
    [][ /\ (inst'.pc = "strategy" /\ inst.pc # "strategy")
             => /\ inst.pc = "chunk"
                /\ inst'.complete
        /\ DownloadStep => fs' = fs
        /\ (DownloadStep /\ ret'.res = "err_chunk")
             => /\ inst'.pc = "idle"
                /\ fs' = fs ]_vars

\* a record with a launch path has a version
LaunchPathImpliesVersion(rec) ==
    (rec.main_executable # <<>> \/ rec.execute_working_directory # <<>>)
        => rec.version # <<>>

\* NotInstalled: no version (and so no launch path)
NotInstalled(rec) ==
    /\ rec.version = <<>>
    /\ rec.main_executable = <<>>
    /\ rec.execute_working_directory = <<>>

\* C31: in the shared store and in the state file, a record with a
\* main_executable or an execute_working_directory has a version; a remove_app
\* that succeeds leaves the product NotInstalled in both.
C31_LaunchPathOnlyWhenInstalled ==
    /\ [](/\ \A id \in DOMAIN mem : LaunchPathImpliesVersion(mem[id])
          /\ disk.kind = "json"
                => \A id \in DOMAIN Deserialize(disk.body) :
                      LaunchPathImpliesVersion(Deserialize(disk.body)[id]))
    /\ [][ (ret'.cmd = "remove_app" /\ ret'.res = "ok")
              => /\ ret'.id \in DOMAIN mem'
                 /\ NotInstalled(mem'[ret'.id])
                 /\ FileHolds(disk', mem') ]_vars

\* remove_app has just removed the Linux install of 1.0.0, which had a launch
\* path
C31_Witness ==
    /\ ret.cmd = "remove_app"
    /\ ret.res = "ok"
    /\ platform = "linux"
    /\ remote = [products |-> <<AngelTwoChannels>>]
    /\ "p1" \in DOMAIN mem
    /\ mem["p1"].name = "Angel"
    /\ NotInstalled(mem["p1"])
    /\ <<"angelsuite", "angel", "app">> \notin fs

\* C32: when install_app has installed an artifact, the record it saves has a
\* main_executable and an execute_working_directory exactly if the artifact
\* declares an executable; an upgrade to an artifact without one leaves no
\* launch path of the previous version.
C32_LaunchPathIffExecutable ==
    [][ RecordsVersion
          => LET rec == inst'.install[inst.id]
                 declared == Unwrap(inst.download).executable # <<>>
             IN  /\ (rec.main_executable # <<>>) = declared
                 /\ (rec.execute_working_directory # <<>>) = declared
                 /\ FileHolds(disk', inst'.install) ]_vars

\* no command is between its first and its last step
NoCommandExecuting ==
    /\ inst.pc = "idle"
    /\ load.pc = "idle"

\* C33: whenever no command is executing and the state file is there, the
\* shared in-memory store is the store the state file holds.
C33_MemoryEqualsFile ==
    (NoCommandExecuting /\ disk.kind # "absent") => FileHolds(disk, mem)

\* install_app or remove_app returns, called while no manifest is loaded
ReturnsWithoutManifest ==
    /\ manifest = <<>>
    /\ ret'.cmd \in {"install_app", "remove_app"}

\* C34: install_app and remove_app called with no manifest loaded return an
\* error and do not panic; neither mutex is ever poisoned, and set_prerelease,
\* start_app and load_manifest never panic on acquiring them.
C34_NoManifestIsAnError ==
    [][ /\ ReturnsWithoutManifest => ret'.res \notin {"ok", "panic"}
        /\ ~mfPoisoned'
        /\ ~instPoisoned'
        /\ ret'.cmd \in {"set_prerelease", "start_app", "load_manifest"}
              => ret'.res # "panic" ]_vars

\* C35: the wrapper the first pass of extract_tar_gz settles on is one path
\* component, and the second pass strips no more than that one level from any
\* entry.
C35_WrapperIsOneLevel ==
    (tar.pc # "open" /\ tar.topmost_dir # <<>>)
        => /\ Len(tar.topmost_dir[1]) = 1
           /\ tar.pc = "done"
                 => \A i \in 1..Len(tar.archive) :
                       Unpacked(Tail(tar.archive[i].path)) \subseteq tar.out
====
